---- MODULE Spec2Model ----
(***************************************************************************)
(* A model of tagd: the daemon that tags the volumes of the instances of   *)
(* the autoscaling groups it watches (daemon.go, autoscaling.go, queue.go).*)
(*                                                                         *)
(* A Go string is a sequence of one-character strings, so that matching    *)
(* (glob.Glob, strings.HasPrefix, strings.ToLower) is computed, not        *)
(* assumed.  A Go map is a function; the order in which a `range` visits   *)
(* it is a nondeterministic choice.                                        *)
(***************************************************************************)
EXTENDS Integers, Sequences, FiniteSets, TLC

VARIABLES
    config,         \* *Config: TaggingConfigs, Backfill, SNSTopicARN
    pc,             \* position of the process in NewDaemon / Start
    result,         \* error NewDaemon or Start returned, outermost wrapping first
    queue,          \* *Queue: url, arn, topicArn, subscriptionArn
    queueLookup,    \* outcome of the GetQueueUrl call ("none" before it)
    asgNameList,    \* NewDaemon: names returned by listAutoscalingGroupNames
    ci, ai,         \* NewDaemon: positions of the two resolving loops
    conf,           \* NewDaemon: the loop variable `conf` (one per loop, go 1.14)
    asgTaggers,     \* Daemon.asgTaggers: live group name -> tagger
    ctxDone,        \* the context handed to Start has been cancelled
    todo,           \* Start: taggers a `range d.asgTaggers` has still to visit
    cur,            \* Start: tagger key of the backfill iteration
    instances, ii,  \* Start: backfill member list and position in it
    messages,       \* Start: batch returned by the last GetMessages
    env, msg,       \* Start: decoded Envelope and Message of the iteration
    sqs,            \* the SQS queue: the set of messages visible on it
    nextId,         \* id of the next message the topic delivers to the queue
    calls,          \* number of requests issued so far, per API of the startup
                    \* phases and of the receive
    acks,           \* DeleteMessage calls issued for the message of the iteration
    handled,        \* Handle invocations of the current backfill group or polling
                    \* iteration, in order: [src, tagger, instance]
    handleCount,    \* message id -> number of Handle invocations it caused
    lastHandle,     \* the requests and the return value of the last Handle of the
                    \* current backfill group or polling iteration
    tagIn, tagOut,  \* the tag computation and the tag-write alone: inputs
                    \* drawn, and the result
    exit,           \* main: how the process ended (code -1 while it runs)
    queueIn,        \* Queue calls alone: the call and the outcome of its request
    queueOut,       \* Queue calls alone: what the call returned
    visited         \* Start: the taggers the running startup loop (enable
                    \* notifications, backfill) has visited so far, each with
                    \* the error of the call made for it

vars == << config, pc, result, queue, queueLookup, asgNameList, ci, ai, conf,
           asgTaggers, ctxDone, todo, cur, instances, ii, messages, env, msg,
           sqs, nextId, calls, acks, handled, handleCount, lastHandle,
           tagIn, tagOut, exit, queueIn, queueOut, visited >>

daemonVars == << config, pc, result, queue, queueLookup, asgNameList, ci, ai,
                 conf, asgTaggers, ctxDone, todo, cur, instances, ii, messages,
                 env, msg, sqs, nextId, calls, acks, handled, handleCount,
                 lastHandle, exit, visited >>

(***************************************************************************)
(* Bounds of the model.                                                    *)
(***************************************************************************)
MaxPolls == 2          \* ReceiveMessage requests in one run
MaxMessages == 2       \* messages the topic delivers in one run

(***************************************************************************)
(* Strings and sequences.                                                  *)
(***************************************************************************)
Range(s) == { s[i] : i \in 1..Len(s) }

RECURSIVE Flatten(_)
Flatten(ss) == IF ss = <<>> THEN <<>> ELSE Head(ss) \o Flatten(Tail(ss))

\* strings.HasPrefix / strings.HasSuffix
HasPrefix(s, p) == Len(p) <= Len(s) /\ SubSeq(s, 1, Len(p)) = p
HasSuffix(s, p) == Len(p) <= Len(s) /\ SubSeq(s, Len(s) - Len(p) + 1, Len(s)) = p

\* strings.Index: offset of the first occurrence of sub in s, -1 if none
Index(s, sub) ==
    LET at == { i \in 0..(Len(s) - Len(sub)) : SubSeq(s, i + 1, i + Len(sub)) = sub }
    IN  IF at = {} THEN -1 ELSE CHOOSE i \in at : \A j \in at : i <= j

\* strings.Split(s, sep) for a one-character separator
RECURSIVE Split(_, _)
Split(s, sep) ==
    LET i == Index(s, sep)
    IN  IF i < 0 THEN << s >>
        ELSE << SubSeq(s, 1, i) >> \o Split(SubSeq(s, i + 2, Len(s)), sep)

\* strings.ToLower on the letters the model uses
LowerChar(c) == CASE c = "A" -> "a" [] c = "B" -> "b" [] OTHER -> c
ToLower(s) == [ i \in 1..Len(s) |-> LowerChar(s[i]) ]

\* all orders in which a `range` may visit the keys of a map
Orders(S) == { o \in [1..Cardinality(S) -> S] : Range(o) = S }

(***************************************************************************)
(* glob.Glob(pattern, subj) of github.com/ryanuber/go-glob, the matcher    *)
(* NewDaemon calls: the pattern is split at "*", the first part must start *)
(* the subject unless the pattern starts with "*", every middle part must  *)
(* occur after the previous one, the last part must end the subject unless *)
(* the pattern ends with "*".                                              *)
(***************************************************************************)
GLOB == << "*" >>

RECURSIVE GlobParts(_, _, _, _)
GlobParts(parts, i, subj, pattern) ==
    LET end == Len(parts) - 1      \* index of the last part, counted from 0
        idx == Index(subj, parts[i + 1])
    IN  IF i >= end
        THEN HasSuffix(pattern, GLOB) \/ HasSuffix(subj, parts[end + 1])
        ELSE IF i = 0 /\ ~HasPrefix(pattern, GLOB) /\ idx # 0 THEN FALSE
        ELSE IF i # 0 /\ idx < 0 THEN FALSE
        ELSE GlobParts(parts, i + 1,
                       SubSeq(subj, idx + Len(parts[i + 1]) + 1, Len(subj)),
                       pattern)

Glob(pattern, subj) ==
    IF pattern = <<>> THEN subj = pattern
    ELSE IF pattern = GLOB THEN TRUE
    ELSE LET parts == Split(pattern, GLOB)
         IN  IF Len(parts) = 1 THEN subj = pattern
             ELSE GlobParts(parts, 0, subj, pattern)

(***************************************************************************)
(* Configurations and the AWS account the daemon runs against.             *)
(***************************************************************************)
\* the TaggingConfig a `range` loop variable holds before the first iteration
ZeroConfig == [ ASGName |-> <<>>, Tags |-> <<>>, KeyPrefix |-> <<>> ]

TagsWeb == (<< "e" >> :> "web")
TagsDb == (<< "e" >> :> "db")

ConfWeb == [ ASGName |-> << "a", "*" >>, Tags |-> TagsWeb, KeyPrefix |-> <<>> ]
ConfDb == [ ASGName |-> << "b" >>, Tags |-> TagsDb, KeyPrefix |-> << << "a" >> >> ]

\* the tagConfig lists of the runs of the whole daemon
DaemonConfigs == { << ConfWeb >>, << ConfWeb, ConfDb >>, << ConfDb, ConfWeb >> }

TopicArns == { <<>>, << "t" >> }     \* --sns-topic-arn: empty or set

GroupA1 == << "a", "1" >>
GroupB == << "b" >>
GroupZ == << "z" >>

\* what paging through DescribeAutoScalingGroups may return: pages of names
DaemonPages == { << >>, << << GroupA1 >> >>, << << GroupA1 >>, << GroupB, GroupZ >> >> }

\* the tagConfig lists and the inventories of the runs of NewDaemon alone
MaxConfigs == 2
NewPatterns == { <<>>, << "*" >>, << "a", "b" >>, << "a", "*" >>, << "*", "b" >>,
                 << "a", "*", "b" >>, << "b", "*", "a", "*" >> }
NewEntries == { [ ASGName |-> p, Tags |-> t, KeyPrefix |-> k ] :
                p \in NewPatterns, t \in { TagsWeb, TagsDb },
                k \in { << << "a" >> >> } }
NewConfigs == UNION { [ 1..n -> NewEntries ] : n \in 0..MaxConfigs }
NewPages == { << >>, << << << "a", "b" >> >> >>,
              << << << "a" >>, << "b" >> >>, << << "a", "a", "b" >> >> >>,
              << << << "b", "a" >>, << "a", "b", "b" >> >>, << >> >>,
              << << << "b", "b", "a", "b" >>, << "a", "b", "a" >> >> >> }

\* error codes of the AWS SDK
ErrQueueDoesNotExist == "AWS.SimpleQueueService.NonExistentQueue"
ErrTopicNotFound == "NotFound"
ErrCanceled == "RequestCanceled"
OtherErrors == { "RequestError", "AccessDenied" }

APIs == { "GetTopicAttributes", "GetQueueUrl", "DescribeAutoScalingGroupsPages",
          "GetQueueAttributes", "Subscribe", "PutNotificationConfiguration",
          "DescribeAutoScalingGroups", "ReceiveMessage", "Unsubscribe",
          "DeleteQueue" }

Called(c, api) == [ c EXCEPT ![api] = @ + 1 ]

NoHandle == [ src |-> -1 ]

Running == [ code |-> -1, level |-> "none" ]

(***************************************************************************)
(* The state after the process has read its flags and its config file.     *)
(***************************************************************************)
InitDaemon(c, at) ==
    /\ config = c
    /\ pc = at
    /\ result = << "none" >>
    /\ queue = [ url |-> "", arn |-> "", topicArn |-> <<>>, subscriptionArn |-> "" ]
    /\ queueLookup = "none"
    /\ asgNameList = <<>>
    /\ ci = 0
    /\ ai = 0
    /\ conf = ZeroConfig
    /\ asgTaggers = <<>>
    /\ ctxDone = FALSE
    /\ todo = {}
    /\ cur = <<>>
    /\ instances = <<>>
    /\ ii = 0
    /\ messages = <<>>
    /\ env = [ err |-> "none" ]
    /\ msg = [ err |-> "none" ]
    /\ sqs = {}
    /\ nextId = 1
    /\ calls = [ a \in APIs |-> 0 ]
    /\ acks = 0
    /\ handled = <<>>
    /\ handleCount = [ i \in 1..MaxMessages |-> 0 ]
    /\ lastHandle = NoHandle
    /\ exit = Running
    /\ visited = <<>>

NoTags == [ done |-> FALSE ]
NoCall == [ done |-> FALSE ]

InitWith(configs) ==
    /\ \E c \in [ TaggingConfigs : configs, Backfill : BOOLEAN,
                   SNSTopicARN : TopicArns ] : InitDaemon(c, "NewQueue")
    /\ tagIn = NoTags
    /\ tagOut = NoTags
    /\ queueIn = NoCall
    /\ queueOut = NoCall

Init == InitWith(DaemonConfigs)

InitNew == InitWith(NewConfigs)

(***************************************************************************)
(* NewDaemon (daemon.go) and NewQueue (queue.go).                          *)
(***************************************************************************)
\* Queue.TopicExists: the error it returns for the outcome of GetTopicAttributes
TopicExists(outcome) ==
    IF outcome = "ok" THEN "nil"
    ELSE IF outcome = ErrTopicNotFound THEN "topic doesn't exist"
    ELSE outcome

\* a QueueExists that reports every failed lookup as a missing queue
QueueExistsMasked(outcome) ==
    IF outcome = "ok" THEN "nil" ELSE "queue doesn't exist"

\* Queue.QueueExists: the error it returns for the outcome of GetQueueUrl
QueueExists(outcome) ==
    IF outcome = "ok" THEN "nil"
    ELSE IF outcome = ErrQueueDoesNotExist THEN "queue doesn't exist"
    ELSE outcome

\* NewDaemon, lines 66-84: NewQueue checks the topic (if one is configured),
\* then the queue; either error ends NewDaemon.
NewQueue ==
    /\ pc = "NewQueue"
    /\ \E topicOutcome \in { "ok", ErrTopicNotFound } \cup OtherErrors,
          queueOutcome \in { "ok", ErrQueueDoesNotExist } \cup OtherErrors :
         LET checkTopic == config.SNSTopicARN # <<>>
             topicErr == IF checkTopic THEN TopicExists(topicOutcome) ELSE "nil"
             c1 == IF checkTopic THEN Called(calls, "GetTopicAttributes") ELSE calls
         IN  IF topicErr # "nil"
             THEN /\ result' = << topicErr >>
                  /\ pc' = "failed"
                  /\ calls' = c1
                  /\ UNCHANGED << queue, queueLookup >>
             ELSE /\ calls' = Called(c1, "GetQueueUrl")
                  /\ queueLookup' = queueOutcome
                  /\ IF QueueExists(queueOutcome) # "nil"
                     THEN /\ result' = << QueueExists(queueOutcome) >>
                          /\ pc' = "failed"
                          /\ UNCHANGED queue
                     ELSE /\ queue' = [ queue EXCEPT !.url = "url",
                                                     !.topicArn = config.SNSTopicARN ]
                          /\ pc' = "listAutoscalingGroupNames"
                          /\ UNCHANGED result
    /\ UNCHANGED << config, asgNameList, ci, ai, conf, asgTaggers, ctxDone, todo,
                    cur, instances, ii, messages, env, msg, sqs, nextId, acks,
                    handled, handleCount, lastHandle, tagIn, tagOut, exit,
                    queueIn, queueOut, visited >>

\* NewDaemon, lines 86-94: page through all groups; an error ends NewDaemon.
listAutoscalingGroupNames(pageSets) ==
    /\ pc = "listAutoscalingGroupNames"
    /\ calls' = Called(calls, "DescribeAutoScalingGroupsPages")
    /\ \/ \E pages \in pageSets :
            /\ asgNameList' = Flatten(pages)
            /\ ci' = 1
            /\ pc' = "resolveOuter"
            /\ UNCHANGED result
       \/ \E e \in OtherErrors :
            /\ result' = << e >>
            /\ pc' = "failed"
            /\ UNCHANGED << asgNameList, ci >>
    /\ UNCHANGED << config, queue, queueLookup, ai, conf, asgTaggers, ctxDone,
                    todo, cur, instances, ii, messages, env, msg, sqs, nextId,
                    acks, handled, handleCount, lastHandle, tagIn, tagOut, exit,
                    queueIn, queueOut, visited >>

\* where a tagger's configuration lives: daemon.go:100 hands addTagger the
\* address of the loop variable, and the tagger keeps what it is handed
AddrOfConf == [ ptr |-> "conf" ]
Deref(p) == IF "ptr" \in DOMAIN p THEN conf ELSE p.val

\* NewAutoscalingTagger, autoscaling.go:69-78: stores its arguments as given
NewAutoscalingTagger(asgName, tags) == [ asgName |-> asgName, tags |-> tags ]

\* an addTagger that files the tagger under the configured pattern
addTaggerByPattern(taggers, asgName, tags) ==
    [ n \in DOMAIN taggers \cup { conf.ASGName } |->
        IF n = conf.ASGName THEN NewAutoscalingTagger(asgName, tags) ELSE taggers[n] ]

\* Daemon.addTagger: d.asgTaggers[asgName] = NewAutoscalingTagger(asgName, tags, ...)
addTagger(taggers, asgName, tags) ==
    [ n \in DOMAIN taggers \cup { asgName } |->
        IF n = asgName THEN NewAutoscalingTagger(asgName, tags) ELSE taggers[n] ]

\* NewDaemon, line 97: `for _, conf := range config.TaggingConfigs`
ResolveOuter ==
    /\ pc = "resolveOuter"
    /\ IF ci <= Len(config.TaggingConfigs)
       THEN /\ conf' = config.TaggingConfigs[ci]
            /\ ai' = 1
            /\ pc' = "resolveInner"
       ELSE /\ pc' = "Start"            \* line 104: return daemon, nil
            /\ UNCHANGED << conf, ai >>
    /\ UNCHANGED << config, result, queue, queueLookup, asgNameList, ci,
                    asgTaggers, ctxDone, todo, cur, instances, ii, messages, env,
                    msg, sqs, nextId, calls, acks, handled, handleCount,
                    lastHandle, tagIn, tagOut, exit,
                    queueIn, queueOut, visited >>

\* NewDaemon, lines 98-102: `for _, asgName := range asgNameList`
ResolveInner ==
    /\ pc = "resolveInner"
    /\ IF ai <= Len(asgNameList)
       THEN /\ asgTaggers' = IF Glob(conf.ASGName, asgNameList[ai])
                             THEN addTagger(asgTaggers, asgNameList[ai], AddrOfConf)
                             ELSE asgTaggers
            /\ ai' = ai + 1
            /\ UNCHANGED << ci, pc >>
       ELSE /\ ci' = ci + 1
            /\ pc' = "resolveOuter"
            /\ UNCHANGED << ai, asgTaggers >>
    /\ UNCHANGED << config, result, queue, queueLookup, asgNameList, conf,
                    ctxDone, todo, cur, instances, ii, messages, env, msg, sqs,
                    nextId, calls, acks, handled, handleCount, lastHandle,
                    tagIn, tagOut, exit,
                    queueIn, queueOut, visited >>

(***************************************************************************)
(* AutoscalingTagger (autoscaling.go).                                     *)
(***************************************************************************)
NilTag == [ nil |-> TRUE ]           \* a nil *ec2.Tag

\* the tags of the instances of the account (read for the key-prefix rules)
InstanceTags(instanceID) ==
    IF instanceID = "i1" THEN (<< "A", "z" >> :> "blue") @@ (<< "e" >> :> "inst")
    ELSE (<< "b" >> :> "red")

Put(m, k, v) == [ x \in DOMAIN m \cup { k } |-> IF x = k THEN v ELSE m[x] ]

\* a key is copied when it starts with one of the prefixes, letter case ignored
MatchesPrefix(key, prefixes) ==
    \E i \in 1..Len(prefixes) : HasPrefix(ToLower(key), ToLower(prefixes[i]))

RECURSIVE CopyMatching(_, _, _, _)
CopyMatching(acc, instTags, instOrder, prefixes) ==
    IF instOrder = <<>> THEN acc
    ELSE LET k == Head(instOrder)
         IN  CopyMatching(IF MatchesPrefix(k, prefixes) THEN Put(acc, k, instTags[k]) ELSE acc,
                          instTags, Tail(instOrder), prefixes)

RECURSIVE Overlay(_, _, _)
Overlay(acc, static, staticOrder) ==
    IF staticOrder = <<>> THEN acc
    ELSE Overlay(Put(acc, Head(staticOrder), static[Head(staticOrder)]),
                 static, Tail(staticOrder))

\* a computeTags that lays the copied instance tags over the static tags
computeTagsStaticFirst(instTags, static, prefixes, instOrder, staticOrder) ==
    CopyMatching(Overlay(<<>>, static, staticOrder), instTags, instOrder, prefixes)

\* computeTags: the instance tags whose key matches a prefix, then the static
\* tags laid over them; instOrder and staticOrder are the orders in which the
\* two maps are visited
computeTags(instTags, static, prefixes, instOrder, staticOrder) ==
    Overlay(CopyMatching(<<>>, instTags, instOrder, prefixes), static, staticOrder)

\* the tag sets a tagger applies to the volumes of an instance: its static
\* tags, or computeTags when it has key-prefix rules
TagSetsOf(tagger, instanceID, instOrder, staticOrder) ==
    LET c == Deref(tagger.tags)
    IN  IF c.KeyPrefix = <<>> THEN << c.Tags >>
        ELSE << computeTags(InstanceTags(instanceID), c.Tags, c.KeyPrefix,
                            instOrder, staticOrder) >>

\* a buildTags that stores each tag in the slot of its tag set instead of
\* appending it, so that the last key visited is the one that stays
buildTagsIndexed(tagSets, iter) ==
    [ j \in 1..Len(tagSets) |->
        IF iter[j] = <<>> THEN NilTag
        ELSE [ Key |-> iter[j][Len(iter[j])],
               Value |-> tagSets[j][iter[j][Len(iter[j])]] ] ]

\* a buildTags that stops after the first key it visits in each tag set
buildTagsFirstOnly(tagSets, iter) ==
    [ j \in 1..Len(tagSets) |-> NilTag ] \o
    Flatten([ j \in 1..Len(tagSets) |->
                IF iter[j] = <<>> THEN <<>>
                ELSE << [ Key |-> iter[j][1], Value |-> tagSets[j][iter[j][1]] ] >> ])

\* AutoscalingTagger.buildTags: a slice made with len(l.tags) entries, to which
\* one ec2.Tag per key of every tag set is appended; iter[j] is the order in
\* which the j-th map is visited
buildTags(tagSets, iter) ==
    [ j \in 1..Len(tagSets) |-> NilTag ] \o
    Flatten([ j \in 1..Len(tagSets) |->
                [ i \in 1..Len(iter[j]) |->
                    [ Key |-> iter[j][i], Value |-> tagSets[j][iter[j][i]] ] ] ])

IterOrders(tagSets) ==
    { it \in [ 1..Len(tagSets) -> UNION { Orders(DOMAIN tagSets[j]) : j \in 1..Len(tagSets) } ] :
        \A j \in 1..Len(tagSets) : it[j] \in Orders(DOMAIN tagSets[j]) }

\* what DescribeVolumes may return for an instance, and the errors of the EC2 calls
VolumeLists == { <<>>, << "v1" >>, << "v1", "v2" >> }
EC2Errors == { "RequestError" }

\* a TagVolumes without the early return for an instance with no volumes
TagVolumesNoEmptyCheck(tagSets, lookup, vols, create, iter) ==
    IF lookup # "ok"
    THEN [ ret |-> lookup, lookup |-> lookup, volumes |-> <<>>, describes |-> 1, creates |-> 0,
           Resources |-> <<>>, Tags |-> <<>> ]
    ELSE [ ret |-> IF create = "ok" THEN "nil" ELSE create,
           lookup |-> lookup, volumes |-> vols, describes |-> 1, creates |-> 1,
           Resources |-> vols, Tags |-> buildTags(tagSets, iter) ]

\* AutoscalingTagger.TagVolumes: the requests it issues and what it returns,
\* given the outcome of DescribeVolumes (lookup, vols) and of CreateTags (create)
TagVolumes(tagSets, lookup, vols, create, iter) ==
    IF lookup # "ok"
    THEN [ ret |-> lookup, lookup |-> lookup, volumes |-> <<>>, describes |-> 1, creates |-> 0,
           Resources |-> <<>>, Tags |-> <<>> ]
    ELSE IF Len(vols) = 0
    THEN [ ret |-> "nil", lookup |-> lookup, volumes |-> vols, describes |-> 1, creates |-> 0,
           Resources |-> <<>>, Tags |-> <<>> ]
    ELSE [ ret |-> IF create = "ok" THEN "nil" ELSE create,
           lookup |-> lookup, volumes |-> vols, describes |-> 1, creates |-> 1,
           Resources |-> vols, Tags |-> buildTags(tagSets, iter) ]

\* AutoscalingTagger.Handle for the tagger under key t, invoked for a queue
\* message (src = its id) or by the backfill (src = 0); the invocation is
\* recorded with what it returned
Handle(t, instanceID, src) ==
    \E lookup \in { "ok" } \cup EC2Errors, vols \in VolumeLists,
       create \in { "ok" } \cup EC2Errors,
       instOrder \in Orders(DOMAIN InstanceTags(instanceID)),
       staticOrder \in Orders(DOMAIN Deref(asgTaggers[t].tags).Tags) :
      LET tagSets == TagSetsOf(asgTaggers[t], instanceID, instOrder, staticOrder)
      IN  \E iter \in IterOrders(tagSets) :
            LET r == TagVolumes(tagSets, lookup, vols, create, iter)
            IN  /\ lastHandle' = r @@ [ src |-> src, tagger |-> t,
                                        asgName |-> asgTaggers[t].asgName,
                                        instance |-> instanceID, tagSets |-> tagSets ]
                /\ handled' = Append(handled,
                                [ src |-> src, tagger |-> t, instance |-> instanceID,
                                  ret |-> r.ret ])
                /\ handleCount' = IF src = 0 THEN handleCount
                                  ELSE [ handleCount EXCEPT ![src] = @ + 1 ]

(***************************************************************************)
(* The tag computation alone, on tags, prefixes and visiting orders drawn  *)
(* from small sets.                                                        *)
(***************************************************************************)
TagMaps == { <<>>,
             (<< "A", "z" >> :> "blue"),
             (<< "A", "z" >> :> "blue") @@ (<< "a", "z" >> :> "red"),
             (<< "a", "z" >> :> "red") @@ (<< "e" >> :> "inst"),
             (<< "b" >> :> "one") @@ (<< "e" >> :> "inst") }
StaticMaps == { <<>>,
                (<< "e" >> :> "web"),
                (<< "a", "z" >> :> "green"),
                (<< "A", "z" >> :> "green") @@ (<< "e" >> :> "web") }
PrefixLists == { <<>>, << << "a" >> >>, << << "A", "Z" >>, << "e" >> >>,
                 << << "b" >>, << "a", "z" >> >> }

InitTags ==
    /\ InitDaemon([ TaggingConfigs |-> <<>>, Backfill |-> FALSE, SNSTopicARN |-> <<>> ],
                  "computeTags")
    /\ tagIn \in [ done : { TRUE }, instTags : TagMaps, static : StaticMaps,
                    prefixes : PrefixLists ]
    /\ tagOut = NoTags
    /\ queueIn = NoCall
    /\ queueOut = NoCall

\* one evaluation: computeTags, then buildTags on its result, with the maps
\* visited in some order
ComputeTags ==
    /\ pc = "computeTags"
    /\ ~tagOut.done
    /\ \E instOrder \in Orders(DOMAIN tagIn.instTags),
          staticOrder \in Orders(DOMAIN tagIn.static) :
         LET tags == computeTags(tagIn.instTags, tagIn.static, tagIn.prefixes,
                                 instOrder, staticOrder)
         IN  \E iter \in IterOrders(<< tags >>) :
               tagOut' = [ done |-> TRUE, tags |-> tags,
                           list |-> buildTags(<< tags >>, iter) ]
    /\ UNCHANGED << daemonVars, tagIn, queueIn, queueOut >>

NextTags == ComputeTags

SpecTags == InitTags /\ [][NextTags]_vars

(***************************************************************************)
(* Daemon.Start (daemon.go) and the Queue calls it makes (queue.go).       *)
(***************************************************************************)
\* a Start that backfills whether or not the backfill is enabled
AfterNotificationsAlwaysBackfill == pc' = "backfill" /\ todo' = DOMAIN asgTaggers

\* a Start that goes to its polling loop without the backfill
AfterNotificationsNoBackfill == pc' = "poll" /\ todo' = {}

\* the phase after the subscribe / enable-notifications block, lines 125-141
AfterNotifications ==
    IF config.Backfill
    THEN pc' = "backfill" /\ todo' = DOMAIN asgTaggers
    ELSE pc' = "poll" /\ todo' = {}

\* a Start that logs a failed subscribe and goes on
SubscribeIgnoringError ==
    /\ pc = "Start"
    /\ IF config.SNSTopicARN = <<>>
       THEN /\ AfterNotifications
            /\ UNCHANGED << result, queue, calls >>
       ELSE \E arnOutcome \in { "ok", "No attribute QueueArn" } \cup OtherErrors,
               subOutcome \in { "ok" } \cup OtherErrors :
              LET needArn == queue.arn = ""
                  c1 == IF needArn THEN Called(calls, "GetQueueAttributes") ELSE calls
              IN  IF needArn /\ arnOutcome # "ok"
                  THEN /\ result' = << "failed to get queue ARN", arnOutcome >>
                       /\ pc' = "returned"
                       /\ calls' = c1
                       /\ UNCHANGED << queue, todo >>
                  ELSE /\ calls' = Called(c1, "Subscribe")
                       /\ IF subOutcome # "ok"
                          THEN /\ queue' = [ queue EXCEPT !.arn = "arn" ]
                               /\ pc' = "enable"
                               /\ todo' = DOMAIN asgTaggers
                               /\ UNCHANGED result
                          ELSE /\ queue' = [ queue EXCEPT !.arn = "arn",
                                                          !.subscriptionArn = "sub" ]
                               /\ pc' = "enable"
                               /\ todo' = DOMAIN asgTaggers
                               /\ UNCHANGED result
    /\ UNCHANGED << config, queueLookup, asgNameList, ci, ai, conf, asgTaggers,
                    ctxDone, cur, instances, ii, messages, env, msg, sqs, nextId,
                    acks, handled, handleCount, lastHandle, tagIn, tagOut, exit,
                    queueIn, queueOut, visited >>

\* Start, lines 110-116, and Queue.Subscribe: resolve the queue's ARN (cached
\* in q.arn), then subscribe the queue to the topic; an error ends Start.
Subscribe ==
    /\ pc = "Start"
    /\ IF config.SNSTopicARN = <<>>
       THEN /\ AfterNotifications
            /\ UNCHANGED << result, queue, calls >>
       ELSE \E arnOutcome \in { "ok", "No attribute QueueArn" } \cup OtherErrors,
               subOutcome \in { "ok" } \cup OtherErrors :
              LET needArn == queue.arn = ""
                  c1 == IF needArn THEN Called(calls, "GetQueueAttributes") ELSE calls
              IN  IF needArn /\ arnOutcome # "ok"
                  THEN /\ result' = << "failed to get queue ARN", arnOutcome >>
                       /\ pc' = "returned"
                       /\ calls' = c1
                       /\ UNCHANGED << queue, todo >>
                  ELSE /\ calls' = Called(c1, "Subscribe")
                       /\ IF subOutcome # "ok"
                          THEN /\ result' = << "failed to subscribe to sqs", subOutcome >>
                               /\ pc' = "returned"
                               /\ queue' = [ queue EXCEPT !.arn = "arn" ]
                               /\ UNCHANGED todo
                          ELSE /\ queue' = [ queue EXCEPT !.arn = "arn",
                                                          !.subscriptionArn = "sub" ]
                               /\ pc' = "enable"
                               /\ todo' = DOMAIN asgTaggers
                               /\ UNCHANGED result
    /\ UNCHANGED << config, queueLookup, asgNameList, ci, ai, conf, asgTaggers,
                    ctxDone, cur, instances, ii, messages, env, msg, sqs, nextId,
                    acks, handled, handleCount, lastHandle, tagIn, tagOut, exit,
                    queueIn, queueOut, visited >>

\* a phase that gives up at the first EnableNotifications that fails
EnableNotificationsAborting ==
    /\ pc = "enable"
    /\ IF todo = {} \/ (visited # <<>> /\ visited[Len(visited)].err # "nil")
       THEN /\ AfterNotifications
            /\ visited' = <<>>
            /\ UNCHANGED calls
       ELSE \E t \in todo, outcome \in { "ok" } \cup EC2Errors :
              /\ calls' = Called(calls, "PutNotificationConfiguration")
              /\ todo' = todo \ { t }
              /\ visited' = Append(visited, [ tagger |-> t,
                                err |-> IF outcome = "ok" THEN "nil" ELSE outcome ])
              /\ UNCHANGED pc
    /\ UNCHANGED << config, result, queue, queueLookup, asgNameList, ci, ai, conf,
                    asgTaggers, ctxDone, cur, instances, ii, messages, env, msg,
                    sqs, nextId, acks, handled, handleCount, lastHandle,
                    tagIn, tagOut, exit, queueIn, queueOut >>

\* Start, lines 117-122: `for _, asg := range d.asgTaggers`, one
\* PutNotificationConfiguration each (AutoscalingTagger.EnableNotifications);
\* an error is logged
EnableNotifications ==
    /\ pc = "enable"
    /\ IF todo = {}
       THEN /\ AfterNotifications
            /\ visited' = <<>>
            /\ UNCHANGED calls
       ELSE \E t \in todo, outcome \in { "ok" } \cup EC2Errors :
              /\ calls' = Called(calls, "PutNotificationConfiguration")
              /\ todo' = todo \ { t }
              /\ visited' = Append(visited, [ tagger |-> t,
                                err |-> IF outcome = "ok" THEN "nil" ELSE outcome ])
              /\ UNCHANGED pc
    /\ UNCHANGED << config, result, queue, queueLookup, asgNameList, ci, ai, conf,
                    asgTaggers, ctxDone, cur, instances, ii, messages, env, msg,
                    sqs, nextId, acks, handled, handleCount, lastHandle,
                    tagIn, tagOut, exit, queueIn, queueOut >>

\* what DescribeAutoScalingGroups may return for one name: groups of members
MemberGroups == { <<>>, << << "i1" >> >>, << << "i1" >>, << "i2" >> >> }

\* a backfill that gives up at the first group whose members cannot be listed
BackfillGroupAborting ==
    /\ pc = "backfill"
    /\ IF todo = {}
       THEN /\ pc' = "poll"
            /\ cur' = <<>>
            /\ instances' = <<>>
            /\ ii' = 0
            /\ visited' = <<>>
            /\ UNCHANGED << todo, calls >>
       ELSE \E t \in todo :
              /\ calls' = Called(calls, "DescribeAutoScalingGroups")
              /\ cur' = t
              /\ \/ \E groups \in MemberGroups :
                      /\ todo' = todo \ { t }
                      /\ instances' = Flatten(groups)
                      /\ ii' = 1
                      /\ pc' = "backfillHandle"
                      /\ visited' = Append(visited,
                                      [ tagger |-> t, err |-> "nil", done |-> ctxDone ])
                 \/ \E e \in EC2Errors :
                      /\ todo' = {}
                      /\ instances' = <<>>
                      /\ ii' = 0
                      /\ visited' = Append(visited,
                                      [ tagger |-> t, err |-> e, done |-> ctxDone ])
                      /\ UNCHANGED pc
    /\ handled' = <<>>
    /\ lastHandle' = NoHandle
    /\ UNCHANGED << config, result, queue, queueLookup, asgNameList, ci, ai, conf,
                    asgTaggers, ctxDone, messages, env, msg, sqs, nextId, acks,
                    handleCount, tagIn, tagOut, exit,
                    queueIn, queueOut >>

\* Start, lines 125-134, and AutoscalingTagger.Instances: the members of the
\* next group; an error is logged and skips the group (continue). Whether
\* the context is cancelled is not looked at.
BackfillGroup ==
    /\ pc = "backfill"
    /\ IF todo = {}
       THEN /\ pc' = "poll"
            /\ cur' = <<>>
            /\ instances' = <<>>
            /\ ii' = 0
            /\ visited' = <<>>
            /\ UNCHANGED << todo, calls >>
       ELSE \E t \in todo :
              /\ calls' = Called(calls, "DescribeAutoScalingGroups")
              /\ todo' = todo \ { t }
              /\ cur' = t
              /\ \/ \E groups \in MemberGroups :
                      /\ instances' = Flatten(groups)
                      /\ ii' = 1
                      /\ pc' = "backfillHandle"
                      /\ visited' = Append(visited,
                                      [ tagger |-> t, err |-> "nil", done |-> ctxDone ])
                 \/ \E e \in EC2Errors :
                      /\ instances' = <<>>
                      /\ ii' = 0
                      /\ visited' = Append(visited,
                                      [ tagger |-> t, err |-> e, done |-> ctxDone ])
                      /\ UNCHANGED pc
    /\ handled' = <<>>
    /\ lastHandle' = NoHandle
    /\ UNCHANGED << config, result, queue, queueLookup, asgNameList, ci, ai, conf,
                    asgTaggers, ctxDone, messages, env, msg, sqs, nextId, acks,
                    handleCount, tagIn, tagOut, exit,
                    queueIn, queueOut >>

\* a backfill that handles the first member of a group only
BackfillHandleFirstOnly ==
    /\ pc = "backfillHandle"
    /\ IF ii <= Len(instances) /\ ii <= 1
       THEN /\ Handle(cur, instances[ii], 0)
            /\ ii' = ii + 1
            /\ UNCHANGED pc
       ELSE /\ pc' = "backfill"
            /\ UNCHANGED << ii, handled, handleCount, lastHandle >>
    /\ UNCHANGED << config, result, queue, queueLookup, asgNameList, ci, ai, conf,
                    asgTaggers, ctxDone, todo, cur, instances, messages, env, msg,
                    sqs, nextId, calls, acks, tagIn, tagOut, exit,
                    queueIn, queueOut, visited >>

\* a backfill that leaves the group when the context is cancelled
BackfillHandleUntilCancelled ==
    /\ pc = "backfillHandle"
    /\ IF ii <= Len(instances) /\ ~ctxDone
       THEN /\ Handle(cur, instances[ii], 0)
            /\ ii' = ii + 1
            /\ UNCHANGED pc
       ELSE /\ pc' = "backfill"
            /\ UNCHANGED << ii, handled, handleCount, lastHandle >>
    /\ UNCHANGED << config, result, queue, queueLookup, asgNameList, ci, ai, conf,
                    asgTaggers, ctxDone, todo, cur, instances, messages, env, msg,
                    sqs, nextId, calls, acks, tagIn, tagOut, exit,
                    queueIn, queueOut, visited >>

\* Start, lines 135-138: Handle for every member, in order; the context is
\* handed to nothing here
BackfillHandle ==
    /\ pc = "backfillHandle"
    /\ IF ii <= Len(instances)
       THEN /\ Handle(cur, instances[ii], 0)
            /\ ii' = ii + 1
            /\ UNCHANGED pc
       ELSE /\ pc' = "backfill"
            /\ UNCHANGED << ii, handled, handleCount, lastHandle >>
    /\ UNCHANGED << config, result, queue, queueLookup, asgNameList, ci, ai, conf,
                    asgTaggers, ctxDone, todo, cur, instances, messages, env, msg,
                    sqs, nextId, calls, acks, tagIn, tagOut, exit,
                    queueIn, queueOut, visited >>

\* a loop that takes its subscription down when the context is cancelled
SelectDoneUnsubscribing ==
    /\ pc = "poll"
    /\ ctxDone
    /\ calls' = IF queue.subscriptionArn # "" THEN Called(calls, "Unsubscribe") ELSE calls
    /\ result' = << "nil" >>
    /\ pc' = "returned"
    /\ UNCHANGED << config, queue, queueLookup, asgNameList, ci, ai, conf,
                    asgTaggers, ctxDone, todo, cur, instances, ii, messages, env,
                    msg, sqs, nextId, acks, handled, handleCount,
                    lastHandle, tagIn, tagOut, exit, queueIn, queueOut, visited >>

\* a loop that returns the error of the context when it is cancelled
SelectDoneWithError ==
    /\ pc = "poll"
    /\ ctxDone
    /\ result' = << "context canceled" >>
    /\ pc' = "returned"
    /\ UNCHANGED << config, queue, queueLookup, asgNameList, ci, ai, conf,
                    asgTaggers, ctxDone, todo, cur, instances, ii, messages, env,
                    msg, sqs, nextId, calls, acks, handled, handleCount,
                    lastHandle, tagIn, tagOut, exit,
                    queueIn, queueOut, visited >>

\* Start, lines 143-145: the cancelled context ends the loop
SelectDone ==
    /\ pc = "poll"
    /\ ctxDone
    /\ result' = << "nil" >>
    /\ pc' = "returned"
    /\ UNCHANGED << config, queue, queueLookup, asgNameList, ci, ai, conf,
                    asgTaggers, ctxDone, todo, cur, instances, ii, messages, env,
                    msg, sqs, nextId, calls, acks, handled, handleCount,
                    lastHandle, tagIn, tagOut, exit,
                    queueIn, queueOut, visited >>

\* a GetMessages that returns the cancellation like any other error
GetMessagesResultStrict(outcome, received) ==
    IF outcome = "ok" THEN [ messages |-> received, err |-> "nil" ]
    ELSE [ messages |-> <<>>, err |-> outcome ]

\* Queue.GetMessages: the result for the outcome of ReceiveMessage
GetMessagesResult(outcome, received) ==
    IF outcome = "ok" THEN [ messages |-> received, err |-> "nil" ]
    ELSE IF outcome = ErrCanceled THEN [ messages |-> <<>>, err |-> "nil" ]
    ELSE [ messages |-> <<>>, err |-> outcome ]

\* the batches a ReceiveMessage with MaxNumberOfMessages 1 may return
Batches == { <<>> } \cup { << m >> : m \in sqs }

\* a loop step that takes the same message again instead of the next one
NextMessageRetry(rest) ==
    /\ messages' = messages
    /\ acks' = acks
    /\ pc' = "delete"

\* the step of the `for _, m := range messages` loop
NextMessage(rest) ==
    /\ messages' = rest
    /\ acks' = IF rest = <<>> THEN acks ELSE 0
    /\ pc' = IF rest = <<>> THEN "endOfBatch" ELSE "delete"

\* a loop that returns the error of a failed receive
GetMessagesFatal ==
    /\ pc = "poll"
    /\ ~ctxDone
    /\ calls["ReceiveMessage"] < MaxPolls
    /\ calls' = Called(calls, "ReceiveMessage")
    /\ \E outcome \in { "ok", ErrCanceled } \cup OtherErrors, received \in Batches :
         /\ messages' = GetMessagesResult(outcome, received).messages
         /\ pc' = IF GetMessagesResult(outcome, received).err # "nil" THEN "returned"
                  ELSE IF messages' = <<>> THEN "poll" ELSE "delete"
         /\ ctxDone' = (outcome = ErrCanceled)
    /\ UNCHANGED << config, result, queue, queueLookup, asgNameList, ci, ai, conf,
                    asgTaggers, todo, cur, instances, ii, env, msg, sqs, nextId,
                    acks, handled, handleCount, lastHandle, tagIn, tagOut, exit,
                    queueIn, queueOut, visited >>

\* Start, lines 146-151: the default branch of the select issues a receive;
\* the context may be cancelled while the receive is in flight
GetMessages ==
    /\ pc = "poll"
    /\ ~ctxDone
    /\ calls["ReceiveMessage"] < MaxPolls
    /\ calls' = Called(calls, "ReceiveMessage")
    /\ \E outcome \in { "ok", ErrCanceled } \cup OtherErrors, received \in Batches :
         /\ messages' = GetMessagesResult(outcome, received).messages
         /\ pc' = IF messages' = <<>> THEN "poll" ELSE "delete"
         /\ ctxDone' = (outcome = ErrCanceled)
    /\ UNCHANGED << config, result, queue, queueLookup, asgNameList, ci, ai, conf,
                    asgTaggers, todo, cur, instances, ii, env, msg, sqs, nextId,
                    acks, handled, handleCount, lastHandle, tagIn, tagOut, exit,
                    queueIn, queueOut, visited >>

\* Queue.DeleteMessage: the error it returns for the outcome of the request
DeleteMessageResult(outcome) ==
    IF outcome = "ok" \/ outcome = ErrCanceled THEN "nil" ELSE outcome

\* a loop that gives up the message whose acknowledge failed
DeleteMessageSkippingOnError ==
    /\ pc = "delete"
    /\ acks' = acks + 1
    /\ \E outcome \in { "ok", ErrCanceled } \cup OtherErrors :
         /\ sqs' \in IF outcome = "ok" THEN { sqs \ { Head(messages) } }
                     ELSE IF outcome = ErrCanceled
                     THEN { sqs, sqs \ { Head(messages) } }
                     ELSE { sqs }
         /\ ctxDone' = (ctxDone \/ outcome = ErrCanceled)
         /\ IF DeleteMessageResult(outcome) = "nil"
            THEN /\ pc' = "unmarshalEnvelope"
                 /\ UNCHANGED messages
            ELSE /\ pc' = (IF Tail(messages) = <<>> THEN "endOfBatch" ELSE "delete")
                 /\ messages' = Tail(messages)
    /\ UNCHANGED << config, result, queue, queueLookup, asgNameList, ci, ai, conf,
                    asgTaggers, todo, cur, instances, ii, env, msg,
                    nextId, calls, handled, handleCount, lastHandle, tagIn, tagOut, exit,
                    queueIn, queueOut, visited >>

\* Start, lines 156-158: delete the message; an error is logged.  A request
\* cancelled in flight may or may not have reached the queue.
DeleteMessage ==
    /\ pc = "delete"
    /\ acks' = acks + 1
    /\ \E outcome \in { "ok", ErrCanceled } \cup OtherErrors :
         /\ sqs' \in IF outcome = "ok" THEN { sqs \ { Head(messages) } }
                     ELSE IF outcome = ErrCanceled
                     THEN { sqs, sqs \ { Head(messages) } }
                     ELSE { sqs }
         /\ ctxDone' = (ctxDone \/ outcome = ErrCanceled)
    /\ pc' = "unmarshalEnvelope"
    /\ UNCHANGED << config, result, queue, queueLookup, asgNameList, ci, ai, conf,
                    asgTaggers, todo, cur, instances, ii, messages, env, msg,
                    nextId, calls, handled, handleCount, lastHandle, tagIn, tagOut, exit,
                    queueIn, queueOut, visited >>

\* JSON documents: text that does not parse, or an object with some fields
NotJSON == [ json |-> FALSE, obj |-> <<>> ]
Object(fields) == [ json |-> TRUE, obj |-> fields ]
Field(doc, name) == IF name \in DOMAIN doc.obj THEN doc.obj[name] ELSE NotJSON
Text(doc, name) == IF name \in DOMAIN doc.obj THEN doc.obj[name] ELSE <<>>

\* json.Unmarshal into an Envelope: Type and Message; Message is the text of
\* the inner document (empty, so not JSON, when the field is absent)
UnmarshalEnvelopeOf(body) ==
    IF ~body.json THEN [ err |-> "invalid" ]
    ELSE [ err |-> "nil", Type |-> Text(body, "Type"), Message |-> Field(body, "Message") ]

\* json.Unmarshal into a Message: GroupName, Event, EC2InstanceID
UnmarshalMessageOf(text) ==
    IF ~text.json THEN [ err |-> "invalid" ]
    ELSE [ err |-> "nil",
           GroupName |-> Text(text, "AutoScalingGroupName"),
           Event |-> Text(text, "Event"),
           EC2InstanceID |-> Text(text, "EC2InstanceId") ]

\* Start, lines 160-164
UnmarshalEnvelope ==
    /\ pc = "unmarshalEnvelope"
    /\ env' = UnmarshalEnvelopeOf(Head(messages).body)
    /\ IF env'.err # "nil"
       THEN NextMessage(Tail(messages))
       ELSE pc' = "unmarshalMessage" /\ UNCHANGED << messages, acks >>
    /\ UNCHANGED << config, result, queue, queueLookup, asgNameList, ci, ai, conf,
                    asgTaggers, ctxDone, todo, cur, instances, ii, msg, sqs,
                    nextId, calls, handled, handleCount, lastHandle,
                    tagIn, tagOut, exit,
                    queueIn, queueOut, visited >>

\* Start, lines 171-175
UnmarshalMessage ==
    /\ pc = "unmarshalMessage"
    /\ msg' = UnmarshalMessageOf(env.Message)
    /\ IF msg'.err # "nil"
       THEN NextMessage(Tail(messages))
       ELSE pc' = "route" /\ UNCHANGED << messages, acks >>
    /\ UNCHANGED << config, result, queue, queueLookup, asgNameList, ci, ai, conf,
                    asgTaggers, ctxDone, todo, cur, instances, ii, env, sqs,
                    nextId, calls, handled, handleCount, lastHandle,
                    tagIn, tagOut, exit,
                    queueIn, queueOut, visited >>

LaunchEvent == << "LAUNCH" >>        \* "autoscaling:EC2_INSTANCE_LAUNCH"
TerminateEvent == << "TERMINATE" >>  \* "autoscaling:EC2_INSTANCE_TERMINATE"

\* a routing that does not look at the kind of event
RoutedAnyEvent(taggers, m) == m.GroupName \in DOMAIN taggers

\* Start, lines 177-185: whether the decoded message is handed to a tagger
Routed(taggers, m) ==
    /\ m.GroupName \in DOMAIN taggers
    /\ m.Event = LaunchEvent

\* a routing that takes up a group it does not know when a configured
\* pattern matches its name
RouteAddingGroups ==
    /\ pc = "route"
    /\ asgTaggers' =
         IF /\ msg.GroupName \notin DOMAIN asgTaggers
            /\ \E i \in 1..Len(config.TaggingConfigs) :
                  Glob(config.TaggingConfigs[i].ASGName, msg.GroupName)
         THEN addTagger(asgTaggers, msg.GroupName, AddrOfConf)
         ELSE asgTaggers
    /\ IF Routed(asgTaggers, msg)
       THEN Handle(msg.GroupName, msg.EC2InstanceID, Head(messages).id)
       ELSE UNCHANGED << handled, handleCount, lastHandle >>
    /\ NextMessage(Tail(messages))
    /\ UNCHANGED << config, result, queue, queueLookup, asgNameList, ci, ai, conf,
                    ctxDone, todo, cur, instances, ii, env, msg, sqs,
                    nextId, calls, tagIn, tagOut, exit,
                    queueIn, queueOut, visited >>

\* Start, lines 177-187: skip the unmanaged group and the other events,
\* hand the launch event to the tagger of its group
Route ==
    /\ pc = "route"
    /\ IF Routed(asgTaggers, msg)
       THEN Handle(msg.GroupName, msg.EC2InstanceID, Head(messages).id)
       ELSE UNCHANGED << handled, handleCount, lastHandle >>
    /\ NextMessage(Tail(messages))
    /\ UNCHANGED << config, result, queue, queueLookup, asgNameList, ci, ai, conf,
                    asgTaggers, ctxDone, todo, cur, instances, ii, env, msg, sqs,
                    nextId, calls, tagIn, tagOut, exit,
                    queueIn, queueOut, visited >>

\* Start, lines 188-190 and 142: the batch is done, env and msg of the
\* iteration are gone, and the outer loop comes back to its select
EndOfBatch ==
    /\ pc = "endOfBatch"
    /\ pc' = "poll"
    /\ acks' = 0
    /\ env' = [ err |-> "none" ]
    /\ msg' = [ err |-> "none" ]
    /\ handled' = <<>>
    /\ lastHandle' = NoHandle
    /\ UNCHANGED << config, result, queue, queueLookup, asgNameList, ci, ai, conf,
                    asgTaggers, ctxDone, todo, cur, instances, ii, messages, sqs,
                    nextId, calls, handleCount, tagIn, tagOut, exit,
                    queueIn, queueOut, visited >>

(***************************************************************************)
(* The environment: the signal handler of main cancels the context, and    *)
(* the topic delivers notifications to the queue.                          *)
(***************************************************************************)
Cancel ==
    /\ pc \in { "Start", "enable", "backfill", "backfillHandle", "poll", "delete",
                "unmarshalEnvelope", "unmarshalMessage", "route", "endOfBatch" }
    /\ ~ctxDone
    /\ ctxDone' = TRUE
    /\ UNCHANGED << config, pc, result, queue, queueLookup, asgNameList, ci, ai,
                    conf, asgTaggers, todo, cur, instances, ii, messages, env,
                    msg, sqs, nextId, calls, acks, handled, handleCount,
                    lastHandle, tagIn, tagOut, exit,
                    queueIn, queueOut, visited >>

\* main, lines 80-83: a failed construction is logged with logger.Fatal,
\* which ends the process with os.Exit(1)
MainNewFailed ==
    /\ pc = "failed"
    /\ exit = Running
    /\ exit' = [ code |-> 1, level |-> "fatal" ]
    /\ UNCHANGED << config, pc, result, queue, queueLookup, asgNameList, ci, ai,
                    conf, asgTaggers, ctxDone, todo, cur, instances, ii, messages,
                    env, msg, sqs, nextId, calls, acks, handled, handleCount,
                    lastHandle, tagIn, tagOut, queueIn, queueOut, visited >>

\* main, lines 103-109: an error of Start is logged with logger.Error, a
\* clean return with logger.Info; then main returns
MainStartReturned ==
    /\ pc = "returned"
    /\ exit = Running
    /\ exit' = [ code |-> 0,
                 level |-> IF result # << "nil" >> THEN "error" ELSE "info" ]
    /\ UNCHANGED << config, pc, result, queue, queueLookup, asgNameList, ci, ai,
                    conf, asgTaggers, ctxDone, todo, cur, instances, ii, messages,
                    env, msg, sqs, nextId, calls, acks, handled, handleCount,
                    lastHandle, tagIn, tagOut, queueIn, queueOut, visited >>

Notification(group, event, instanceID) ==
    Object([ Type |-> << "Notification" >>,
             Message |-> Object([ AutoScalingGroupName |-> group, Event |-> event,
                                  EC2InstanceId |-> instanceID ]) ])

Bodies == { NotJSON,
            Object([ Type |-> << "Notification" >>, Message |-> NotJSON ]),
            Notification(GroupA1, LaunchEvent, "i1"),
            Notification(GroupA1, TerminateEvent, "i1"),
            Notification(GroupZ, LaunchEvent, "i2") }

\* The queue is read only by GetMessages, so a delivery is shown at two
\* moments: when Start begins (the message is on the queue during the
\* startup phases) and while the daemon is at the top of its loop.  A
\* delivery during the startup differs from one at the top of the loop
\* before the first receive only in what is on the queue while the startup
\* phases run, and one message shows that.
SendMessage ==
    /\ pc = "poll" \/ (pc = "Start" /\ sqs = {})
    /\ nextId <= MaxMessages
    /\ \E b \in Bodies : sqs' = sqs \cup { [ id |-> nextId, body |-> b ] }
    /\ nextId' = nextId + 1
    /\ UNCHANGED << config, pc, result, queue, queueLookup, asgNameList, ci, ai,
                    conf, asgTaggers, ctxDone, todo, cur, instances, ii, messages,
                    env, msg, calls, acks, handled, handleCount, lastHandle,
                    tagIn, tagOut, exit,
                    queueIn, queueOut, visited >>

Next ==
    \/ NewQueue
    \/ listAutoscalingGroupNames(DaemonPages)
    \/ ResolveOuter
    \/ ResolveInner
    \/ Subscribe
    \/ EnableNotifications
    \/ BackfillGroup
    \/ BackfillHandle
    \/ SelectDone
    \/ GetMessages
    \/ DeleteMessage
    \/ UnmarshalEnvelope
    \/ UnmarshalMessage
    \/ Route
    \/ EndOfBatch
    \/ Cancel
    \/ SendMessage
    \/ MainNewFailed
    \/ MainStartReturned

Spec == Init /\ [][Next]_vars

\* Start is one goroutine that runs on: the select of the loop is taken, and
\* the synchronous calls made for the message of the iteration return
LoopFairness ==
    /\ WF_vars(SelectDone)
    /\ WF_vars(DeleteMessage)
    /\ WF_vars(UnmarshalEnvelope)
    /\ WF_vars(UnmarshalMessage)
    /\ WF_vars(Route)
    /\ WF_vars(EndOfBatch)

\* the runs whose termination is examined: one tagConfig list, with every
\* choice of topic, backfill, inventory, messages and outcomes
LiveConfigs == { << ConfWeb >> }
InitLive == InitWith(LiveConfigs)

SpecLive == InitLive /\ [][Next]_vars /\ LoopFairness

NextNew ==
    \/ NewQueue
    \/ listAutoscalingGroupNames(NewPages)
    \/ ResolveOuter
    \/ ResolveInner

SpecNew == InitNew /\ [][NextNew]_vars

(***************************************************************************)
(* The construction alone on tagConfig lists of three entries, in every    *)
(* order: a pattern for the names that start with "a", a pattern for       *)
(* every name, and a pattern for the one name "b".                         *)
(***************************************************************************)
TagsAll == (<< "e" >> :> "all")
ConfAll == [ ASGName |-> << "*" >>, Tags |-> TagsAll, KeyPrefix |-> <<>> ]
LastConfigs == { c \in [ 1..3 -> { ConfWeb, ConfAll, ConfDb } ] :
                   Range(c) = { ConfWeb, ConfAll, ConfDb } }

InitLast == InitWith(LastConfigs)

SpecLast == InitLast /\ [][NextNew]_vars

(***************************************************************************)
(* TagVolumes alone, called twice for one instance: the tags of the        *)
(* volumes of the account before, between and after the two calls.         *)
(***************************************************************************)
\* l.tags of a tagger: a list of tag sets
TagSetLists == { << TagsWeb >>,
                 << (<< "e" >> :> "web") @@ (<< "n" >> :> "x") >>,
                 << TagsDb, (<< "n" >> :> "x") @@ (<< "o" >> :> "y") >>,
                 << <<>> >> }

\* the tags the volumes of the account carry before the first call
VolumeTagMaps == { <<>>, (<< "e" >> :> "old"), (<< "k" >> :> "kept") @@ (<< "n" >> :> "x") }
AllVolumes == { "v1", "v2" }

\* ec2 CreateTags on one resource: every tag of the request is added, or
\* overwrites the tag with its key (a nil entry is not sent)
RECURSIVE ApplyTags(_, _)
ApplyTags(tags, list) ==
    IF list = <<>> THEN tags
    ELSE ApplyTags(IF Head(list) = NilTag THEN tags
                   ELSE Put(tags, Head(list).Key, Head(list).Value),
                   Tail(list))

\* the tags of the volumes after the requests of one TagVolumes call r
CreateTags(ec2, r) ==
    IF r.creates = 1 /\ r.ret = "nil"
    THEN [ v \in DOMAIN ec2 |->
             IF v \in Range(r.Resources) THEN ApplyTags(ec2[v], r.Tags) ELSE ec2[v] ]
    ELSE ec2

InitVolumes ==
    /\ InitDaemon([ TaggingConfigs |-> <<>>, Backfill |-> FALSE, SNSTopicARN |-> <<>> ],
                  "TagVolumes")
    /\ tagIn \in [ done : { TRUE }, tagSets : TagSetLists, volumes : VolumeLists,
                    ec2 : { [ v \in AllVolumes |-> t ] : t \in VolumeTagMaps } ]
    /\ tagOut = NoTags
    /\ queueIn = NoCall
    /\ queueOut = NoCall

\* the first Handle of the instance: TagVolumes with some outcome of its
\* two requests and some visiting order of the tag sets
TagVolumesFirst ==
    /\ pc = "TagVolumes"
    /\ ~tagOut.done
    /\ \E lookup \in { "ok" } \cup EC2Errors, create \in { "ok" } \cup EC2Errors,
          iter \in IterOrders(tagIn.tagSets) :
         LET r == TagVolumes(tagIn.tagSets, lookup, tagIn.volumes, create, iter)
         IN  tagOut' = [ done |-> TRUE, handles |-> 1, first |-> r.ret,
                         ec2 |-> CreateTags(tagIn.ec2, r),
                         once |-> CreateTags(tagIn.ec2, r) ]
    /\ UNCHANGED << daemonVars, tagIn, queueIn, queueOut >>

\* the second Handle of the same instance, with the same volumes attached
TagVolumesAgain ==
    /\ pc = "TagVolumes"
    /\ tagOut.done
    /\ tagOut.handles = 1
    /\ \E lookup \in { "ok" } \cup EC2Errors, create \in { "ok" } \cup EC2Errors,
          iter \in IterOrders(tagIn.tagSets) :
         LET r == TagVolumes(tagIn.tagSets, lookup, tagIn.volumes, create, iter)
         IN  tagOut' = [ tagOut EXCEPT !.handles = 2, !.ec2 = CreateTags(@, r) ]
    /\ UNCHANGED << daemonVars, tagIn, queueIn, queueOut >>

NextVolumes ==
    \/ TagVolumesFirst
    \/ TagVolumesAgain

SpecVolumes == InitVolumes /\ [][NextVolumes]_vars

(***************************************************************************)
(* The two Queue calls of the loop alone, on the outcomes a request to SQS *)
(* may have.                                                               *)
(***************************************************************************)
QueueOutcomes == { "ok", ErrCanceled } \cup OtherErrors
QueueBatches ==
    { <<>> } \cup { << [ id |-> i, body |-> b ] >> : i \in 1..MaxMessages, b \in Bodies }

InitQueue ==
    /\ InitDaemon([ TaggingConfigs |-> <<>>, Backfill |-> FALSE, SNSTopicARN |-> <<>> ],
                  "queueCall")
    /\ tagIn = NoTags
    /\ tagOut = NoTags
    /\ queueIn \in [ done : { TRUE }, api : { "ReceiveMessage", "DeleteMessage" },
                      outcome : QueueOutcomes, received : QueueBatches ]
    /\ queueOut = NoCall

\* one call of Queue.GetMessages or of Queue.DeleteMessage
QueueCall ==
    /\ pc = "queueCall"
    /\ ~queueOut.done
    /\ queueOut' =
         IF queueIn.api = "ReceiveMessage"
         THEN [ done |-> TRUE,
                messages |-> GetMessagesResult(queueIn.outcome, queueIn.received).messages,
                err |-> GetMessagesResult(queueIn.outcome, queueIn.received).err ]
         ELSE [ done |-> TRUE, messages |-> <<>>,
                err |-> DeleteMessageResult(queueIn.outcome) ]
    /\ UNCHANGED << daemonVars, tagIn, tagOut, queueIn >>

NextQueue == QueueCall

SpecQueue == InitQueue /\ [][NextQueue]_vars

(***************************************************************************)
(* Properties.                                                             *)
(***************************************************************************)
PollingPcs == { "poll", "delete", "unmarshalEnvelope", "unmarshalMessage", "route",
                "endOfBatch" }
DecodingPcs == { "unmarshalEnvelope", "unmarshalMessage", "route" }
Configs == config.TaggingConfigs

\* where the iteration stands with respect to its one DeleteMessage call
AckedOnceBeforeDecode ==
    /\ pc = "delete" => acks = 0 /\ env.err = "none" /\ msg.err = "none"
    /\ pc = "unmarshalEnvelope" => acks = 1 /\ env.err = "none"
    /\ pc \in DecodingPcs => acks = 1
    /\ pc = "endOfBatch" => acks = 1
    /\ pc \in { "poll", "returned" } => acks = 0 /\ env.err = "none"

\* decoding and routing neither touch the queue nor lead back to the delete
DecodeLeavesQueue ==
    pc \in DecodingPcs =>
        /\ sqs' = sqs
        /\ acks' = acks
        /\ (pc' = "delete" => messages' # messages)

\* C1: every received message is acknowledged (DeleteMessage) exactly once,
\* before its envelope is decoded; a failure to decode the envelope or the
\* payload causes no second acknowledge and does not put the message back on
\* the queue.
C1_AckOnceBeforeDecode == [](AckedOnceBeforeDecode) /\ [][DecodeLeavesQueue]_vars

\* C1 witness: a payload that failed to decode, after the one acknowledge that
\* took the message off the queue
C1_Witness ==
    pc = "endOfBatch" /\ acks = 1 /\ msg.err = "invalid" /\ sqs = {} /\ nextId = 2

\* C2: a message placed on the queue leads to at most one Handle invocation,
\* whatever the outcomes of the receives, the acknowledges and the tagging.
C2_AtMostOneHandle == \A i \in DOMAIN handleCount : handleCount[i] <= 1

\* C3: during polling a Handle is invoked only for a launch event of a group
\* that is a key of the tagger map, on the tagger under exactly that key and
\* on no other; without a Handle there is no volume lookup and no tag-write.
C3_OnlyLaunchOfWatchedGroup ==
    pc \in PollingPcs \cup { "returned" } =>
        /\ handled = <<>> => lastHandle = NoHandle
        /\ handled # <<>> =>
             /\ msg.err = "nil"
             /\ msg.Event = LaunchEvent
             /\ msg.GroupName \in DOMAIN asgTaggers
             /\ Len(handled) = 1
             /\ handled[1].tagger = msg.GroupName
             /\ asgTaggers[handled[1].tagger].asgName = msg.GroupName
             /\ handled[1].instance = msg.EC2InstanceID
             /\ lastHandle.describes = 1

\* C3 witness: an event of a watched group that is not a launch went through
\* the routing and nothing was handled
C3_Witness ==
    /\ pc = "endOfBatch"
    /\ msg.err = "nil"
    /\ msg.Event = TerminateEvent
    /\ msg.GroupName \in DOMAIN asgTaggers
    /\ handled = <<>>
    /\ lastHandle = NoHandle

\* the glob semantics: "*" stands for any text, every other character for itself
RECURSIVE GlobMatches(_, _)
GlobMatches(p, n) ==
    IF p = <<>> THEN n = <<>>
    ELSE IF Head(p) = "*"
    THEN GlobMatches(Tail(p), n) \/ (n # <<>> /\ GlobMatches(p, Tail(n)))
    ELSE n # <<>> /\ Head(n) = Head(p) /\ GlobMatches(Tail(p), Tail(n))

\* C4: once NewDaemon has succeeded, the keys of the tagger map are exactly
\* the live group names that glob-match at least one configured pattern, and
\* each tagger is filed under the name of its own group.
C4_WatchedIffMatched ==
    pc = "Start" =>
        /\ DOMAIN asgTaggers =
             { n \in Range(asgNameList) :
                 \E i \in 1..Len(Configs) : GlobMatches(Configs[i].ASGName, n) }
        /\ \A n \in DOMAIN asgTaggers : asgTaggers[n].asgName = n

\* C4 witness: one pattern yielded several taggers and left a live group out
C4_Witness ==
    /\ pc = "Start"
    /\ Len(Configs) = 1
    /\ Cardinality(DOMAIN asgTaggers) >= 2
    /\ \E n \in Range(asgNameList) : n \notin DOMAIN asgTaggers

\* C5: the static tags and key prefixes held by the tagger of every watched
\* group are those of a configuration entry whose pattern matches the group's
\* name, from the moment the tagger is built on (through the later iterations
\* of the resolving loops and through Start).
C5_TaggerKeepsMatchingConfig ==
    \A g \in DOMAIN asgTaggers :
        \E i \in 1..Len(Configs) :
            /\ Glob(Configs[i].ASGName, g)
            /\ Deref(asgTaggers[g].tags).Tags = Configs[i].Tags
            /\ Deref(asgTaggers[g].tags).KeyPrefix = Configs[i].KeyPrefix

\* the instance tags a key-prefix rule selects
Selected(instTags, prefixes) ==
    { k \in DOMAIN instTags : MatchesPrefix(k, prefixes) }

TagEntries(list) == { e \in Range(list) : e # NilTag }
Reorderings(seq) == { [ i \in 1..Len(seq) |-> seq[o[i]] ] : o \in Orders(1..Len(seq)) }

C8_NoVolumesIsSuccess ==
    (lastHandle.src # -1 /\ lastHandle.lookup = "ok" /\ lastHandle.volumes = <<>>)
        => (lastHandle.ret = "nil" /\ lastHandle.creates = 0)

\* C8 witness: a launch event handled for an instance without volumes
C8_Witness ==
    /\ lastHandle.src >= 1
    /\ lastHandle.lookup = "ok"
    /\ lastHandle.volumes = <<>>

\* C9: a launch event whose instance has n >= 1 volumes leads to exactly one
\* CreateTags, on exactly those volumes, with exactly one entry per key/value
\* pair of the tagger's tag set and no other entry.
C9_OneExactTagWrite ==
    (lastHandle.src >= 1 /\ lastHandle.lookup = "ok" /\ Len(lastHandle.volumes) >= 1)
        => LET tags == lastHandle.tagSets[1]
           IN  /\ lastHandle.creates = 1
               /\ lastHandle.Resources = lastHandle.volumes
               /\ Len(lastHandle.Tags) = Cardinality(DOMAIN tags)
               /\ Range(lastHandle.Tags) =
                    { [ Key |-> k, Value |-> tags[k] ] : k \in DOMAIN tags }

NoRequest(api) == calls[api] = 0

\* C10: when the queue lookup reports that the queue does not exist,
\* NewDaemon fails with "queue doesn't exist" and the run issues no subscribe,
\* no group enumeration and no receive; any other error of the lookup is
\* returned as it is.
C10_QueueMissingFailsConstruction ==
    /\ queueLookup = ErrQueueDoesNotExist =>
         /\ pc = "failed"
         /\ result = << "queue doesn't exist" >>
         /\ NoRequest("Subscribe")
         /\ NoRequest("DescribeAutoScalingGroupsPages")
         /\ NoRequest("ReceiveMessage")
    /\ queueLookup \in OtherErrors =>
         /\ pc = "failed"
         /\ result = << queueLookup >>

\* C10 witness: the topic was found and the queue was not
C10_Witness ==
    /\ queueLookup = ErrQueueDoesNotExist
    /\ calls["GetTopicAttributes"] = 1
    /\ pc = "failed"

\* the recorded Handle invocations without their outcomes
Invocations(h) ==
    [ j \in 1..Len(h) |->
        [ src |-> h[j].src, tagger |-> h[j].tagger, instance |-> h[j].instance ] ]

\* the Handle invocations the backfill owes the first n members of the group
BackfillOf(t, members, n) ==
    [ j \in 1..n |-> [ src |-> 0, tagger |-> t, instance |-> members[j] ] ]

\* C11: with backfill enabled every watched group is listed once, and for a
\* group whose listing succeeded with N members Handle is invoked exactly N
\* times, once per member in listing order, on the tagger of that group,
\* whatever messages are on the queue.
C11_BackfillHandlesEveryMember ==
    /\ pc \in { "backfill", "backfillHandle" } =>
         /\ config.Backfill
         /\ calls["DescribeAutoScalingGroups"] + Cardinality(todo)
              = Cardinality(DOMAIN asgTaggers)
    /\ pc = "backfillHandle" =>
         /\ cur \in DOMAIN asgTaggers
         /\ ii - 1 <= Len(instances)
         /\ Invocations(handled) = BackfillOf(cur, instances, ii - 1)
    /\ (pc = "backfill" /\ ii >= 1) =>
         Invocations(handled) = BackfillOf(cur, instances, Len(instances))

\* C11 witness: a group of two members has been backfilled while a message
\* was waiting on the queue
C11_Witness ==
    /\ pc = "backfill"
    /\ Len(instances) = 2
    /\ Len(handled) = 2
    /\ sqs # {}

StartupPcs == { "Start", "enable", "backfill", "backfillHandle" }

\* C12: backfill and polling never overlap: no receive is issued while Start
\* is in its startup phases, and with backfill enabled the polling loop is
\* entered only when every watched group has been listed and the Handle of
\* the last member of the last group has returned.
C12_BackfillBeforePolling ==
    /\ pc \in StartupPcs => NoRequest("ReceiveMessage")
    /\ (pc \in PollingPcs /\ config.Backfill) =>
         /\ todo = {}
         /\ calls["DescribeAutoScalingGroups"] = Cardinality(DOMAIN asgTaggers)
    /\ (pc \in PollingPcs /\ NoRequest("ReceiveMessage")) => handleCount = [ i \in 1..MaxMessages |-> 0 ]

\* C12 witness: a message was received in a run that backfilled two groups
C12_Witness ==
    /\ config.Backfill
    /\ calls["DescribeAutoScalingGroups"] = 2
    /\ calls["ReceiveMessage"] = 1
    /\ pc = "delete"

FatalStartErrors == { "failed to get queue ARN", "failed to subscribe to sqs" }

\* C13: a missing topic, a missing queue, a failed group enumeration and a
\* failed subscribe each stop the daemon before the polling loop, so that no
\* receive is ever issued; after a failed subscribe there is also no
\* enableNotifications call, no member listing and no Handle.
C13_FatalStartupStopsBeforeLoop ==
    /\ (calls["GetTopicAttributes"] = 1 /\ NoRequest("GetQueueUrl")) => pc = "failed"
    /\ queueLookup \notin { "none", "ok" } => pc = "failed"
    /\ (calls["DescribeAutoScalingGroupsPages"] = 1 /\ ci = 0) => pc = "failed"
    /\ (calls["GetQueueAttributes"] = 1 /\ queue.arn = "") => pc = "returned"
    /\ (calls["Subscribe"] = 1 /\ queue.subscriptionArn = "") => pc = "returned"
    /\ pc = "failed" =>
         /\ result \notin { << "none" >>, << "nil" >> }
         /\ \A api \in { "ReceiveMessage", "Subscribe", "PutNotificationConfiguration",
                          "DescribeAutoScalingGroups" } : NoRequest(api)
         /\ lastHandle = NoHandle
    /\ (pc = "returned" /\ (queue.arn = "" \/ queue.subscriptionArn = "")
           /\ config.SNSTopicARN # <<>>) =>
         /\ Head(result) \in FatalStartErrors
         /\ \A api \in { "ReceiveMessage", "PutNotificationConfiguration",
                          "DescribeAutoScalingGroups" } : NoRequest(api)
         /\ handled = <<>>
         /\ lastHandle = NoHandle
    /\ ~NoRequest("ReceiveMessage") =>
         /\ queueLookup = "ok"
         /\ config.SNSTopicARN # <<>> => queue.subscriptionArn # ""

\* C13 witness: the subscribe failed in a run with watched groups and backfill
C13_Witness ==
    /\ pc = "returned"
    /\ result[1] = "failed to subscribe to sqs"
    /\ DOMAIN asgTaggers # {}
    /\ config.Backfill

\* C14: every fatal error (an error returned by the construction of the
\* daemon or by Start) ends the process with a non-zero exit status and a
\* logged cause.
C14_FatalExitsNonZero ==
    (exit # Running /\ result # << "nil" >>) =>
        /\ exit.code # 0
        /\ exit.level \in { "fatal", "error" }

\* what a step of the polling loop may do, whatever failed in it
LoopContinues ==
    /\ pc \in PollingPcs =>
         \/ pc' \in PollingPcs /\ result' = result
         \/ pc = "poll" /\ ctxDone /\ pc' = "returned" /\ result' = << "nil" >>
    /\ (pc \in DecodingPcs /\ pc' \in { "delete", "endOfBatch" }) =>
         messages' = Tail(messages)
    /\ (pc = "endOfBatch" /\ pc' # pc) => pc' = "poll" /\ messages' = <<>>
    /\ pc = "route" => Len(handled') <= 1

\* C15: once the polling loop is entered no recoverable error ends it: after
\* a failed receive, a failed acknowledge, an envelope or payload that does
\* not decode, a group without tagger, an event that is not a launch or a
\* failed tagging the loop goes on to the next message or the next receive,
\* the failed message is not taken again, and Start returns (with nil) only
\* from the top of the loop with the context cancelled.
C15_LoopSurvivesRecoverableErrors == [][LoopContinues]_vars

\* C15 witness: the tagging of the second message failed, after a first
\* message that was dropped without a Handle, and the context is not cancelled
C15_Witness ==
    /\ pc = "endOfBatch"
    /\ ~ctxDone
    /\ lastHandle.src = 2
    /\ lastHandle.ret # "nil"
    /\ handleCount[1] = 0
    /\ sqs = {}
    /\ nextId = 3

\* once the top of the loop has the context cancelled, no receive is issued
NoReceiveAfterCancel ==
    (pc = "poll" /\ ctxDone) =>
        /\ calls'["ReceiveMessage"] = calls["ReceiveMessage"]
        /\ pc' \in { "poll", "returned" }

\* C16: once the context is cancelled while the daemon is in its polling
\* loop, Start eventually returns nil (the calls made for the message of the
\* iteration return), and an iteration that finds the context cancelled at
\* the top of the loop issues no receive.
C16_CancelEndsLoop ==
    /\ (ctxDone /\ pc \in PollingPcs) ~> (pc = "returned" /\ result = << "nil" >>)
    /\ [][NoReceiveAfterCancel]_vars

\* C16 witness: Start returned nil on a cancelled context, after it had
\* received and handled a message
C16_Witness ==
    /\ pc = "returned"
    /\ result = << "nil" >>
    /\ ctxDone
    /\ handleCount[1] = 1
    /\ calls["ReceiveMessage"] = 1

\* C17: a receive that ends with the cancellation error returns no message
\* and no error, an acknowledge that ends with it returns nil; any other
\* error of either call is returned as it is, and a successful receive
\* returns the messages it got.
C17_CancellationSwallowed ==
    queueOut.done =>
        /\ queueIn.outcome = ErrCanceled =>
             queueOut.err = "nil" /\ queueOut.messages = <<>>
        /\ queueIn.outcome \in OtherErrors =>
             queueOut.err = queueIn.outcome /\ queueOut.messages = <<>>
        /\ queueIn.outcome = "ok" =>
             /\ queueOut.err = "nil"
             /\ queueIn.api = "ReceiveMessage" => queueOut.messages = queueIn.received

\* C17 witness: a receive that was cancelled while a message was on its way
C17_Witness ==
    /\ queueOut.done
    /\ queueIn.api = "ReceiveMessage"
    /\ queueIn.outcome = ErrCanceled
    /\ queueIn.received # <<>>

\* the tags of the volumes after one tag-write of the tagger's tag sets
TaggedOnce ==
    [ v \in AllVolumes |->
        IF v \in Range(tagIn.volumes)
        THEN ApplyTags(tagIn.ec2[v],
                       buildTags(tagIn.tagSets,
                                 CHOOSE iter \in IterOrders(tagIn.tagSets) : TRUE))
        ELSE tagIn.ec2[v] ]

\* C18: with the tag sets and the attached volumes fixed, a second Handle of
\* the same instance leaves the tags of the volumes as the first one left
\* them when the first one succeeded, and in any case in a state a single
\* Handle can leave them in.
C18_TaggingIdempotent ==
    (tagOut.done /\ pc = "TagVolumes" /\ tagOut.handles = 2) =>
        /\ tagOut.first = "nil" => tagOut.ec2 = tagOut.once
        /\ tagOut.ec2 \in { tagIn.ec2, TaggedOnce }

\* C18 witness: two Handles, the first of which wrote several tags on
\* volumes that carried other tags
C18_Witness ==
    /\ tagOut.done
    /\ pc = "TagVolumes"
    /\ tagOut.handles = 2
    /\ tagOut.first = "nil"
    /\ tagOut.once # tagIn.ec2
    /\ Len(tagIn.volumes) = 2
    /\ \E j \in 1..Len(tagIn.tagSets) : Cardinality(DOMAIN tagIn.tagSets[j]) = 2

Watched == Cardinality(DOMAIN asgTaggers)

\* C19: the phases of Start come in the order subscribe, enable
\* notifications, backfill, polling, and are skipped as configured: without
\* a topic there is no topic check, no subscribe and no enableNotifications
\* call; without backfill there is no member listing and no Handle before
\* the polling loop.
C19_PhasesInOrder ==
    /\ config.SNSTopicARN = <<>> =>
         /\ \A api \in { "GetTopicAttributes", "GetQueueAttributes", "Subscribe",
                          "PutNotificationConfiguration" } : NoRequest(api)
         /\ pc # "enable"
    /\ ~config.Backfill =>
         /\ NoRequest("DescribeAutoScalingGroups")
         /\ pc \notin { "backfill", "backfillHandle" }
         /\ pc \in StartupPcs => lastHandle = NoHandle /\ handled = <<>>
    /\ ~NoRequest("PutNotificationConfiguration") =>
         /\ calls["Subscribe"] = 1
         /\ pc # "Start"
    /\ ~NoRequest("DescribeAutoScalingGroups") =>
         /\ pc \notin { "Start", "enable" }
         /\ config.SNSTopicARN # <<>> =>
              calls["Subscribe"] = 1 /\ calls["PutNotificationConfiguration"] = Watched
    /\ ~NoRequest("ReceiveMessage") =>
         /\ pc \in PollingPcs \cup { "returned" }
         /\ config.Backfill => calls["DescribeAutoScalingGroups"] = Watched
         /\ config.SNSTopicARN # <<>> =>
              calls["Subscribe"] = 1 /\ calls["PutNotificationConfiguration"] = Watched

\* C19 witness: a run without topic and without backfill came to receive a
\* message for one of its two watched groups
C19_Witness ==
    /\ config.SNSTopicARN = <<>>
    /\ ~config.Backfill
    /\ Watched = 2
    /\ pc = "route"
    /\ msg.GroupName \in DOMAIN asgTaggers

\* C20: with a topic configured a run issues at most one subscribe request,
\* and exactly one once Start is past its subscribe step; it is issued
\* before the first receive; the ARN of the queue is looked up at most once;
\* no unsubscribe and no queue deletion is ever issued, shutdown included.
C20_SubscribeOnceNeverUndone ==
    /\ calls["Subscribe"] <= 1
    /\ calls["GetQueueAttributes"] <= 1
    /\ calls["Subscribe"] = 1 => calls["GetQueueAttributes"] = 1 /\ queue.arn # ""
    /\ (config.SNSTopicARN # <<>> /\ pc \in (StartupPcs \ { "Start" }) \cup PollingPcs) =>
         calls["Subscribe"] = 1 /\ queue.subscriptionArn # ""
    /\ (config.SNSTopicARN # <<>> /\ ~NoRequest("ReceiveMessage")) =>
         calls["Subscribe"] = 1
    /\ (config.SNSTopicARN # <<>> /\ pc = "returned" /\ result = << "nil" >>) =>
         calls["Subscribe"] = 1
    /\ NoRequest("Unsubscribe")
    /\ NoRequest("DeleteQueue")

\* C20 witness: a run with a topic was cancelled after a receive and the
\* process has ended
C20_Witness ==
    /\ config.SNSTopicARN # <<>>
    /\ pc = "returned"
    /\ exit.code = 0
    /\ result = << "nil" >>
    /\ calls["ReceiveMessage"] = 2
    /\ queue.subscriptionArn # ""

\* the taggers a startup loop has visited
VisitedTaggers == { visited[j].tagger : j \in 1..Len(visited) }

\* C21: in the enable-notifications phase EnableNotifications is called once
\* for every tagger of the tagger map, whichever of the calls fail; a failed
\* call neither ends the phase nor ends Start, which goes on to the backfill
\* and the polling loop.
C21_EnableOncePerTagger ==
    /\ pc = "enable" =>
         /\ Len(visited) = calls["PutNotificationConfiguration"]
         /\ Cardinality(VisitedTaggers) = Len(visited)
         /\ VisitedTaggers = DOMAIN asgTaggers \ todo
         /\ result = << "none" >>
    /\ (config.SNSTopicARN # <<>>
           /\ pc \in { "backfill", "backfillHandle" } \cup PollingPcs) =>
         calls["PutNotificationConfiguration"] = Watched
    /\ (~NoRequest("PutNotificationConfiguration") /\ pc = "returned") =>
         /\ result = << "nil" >>
         /\ calls["PutNotificationConfiguration"] = Watched
    /\ calls["PutNotificationConfiguration"] <= Watched

\* C21 witness: the call for the first of two taggers failed and the call
\* for the second was made
C21_Witness ==
    /\ pc = "enable"
    /\ Len(visited) = 2
    /\ visited[1].err # "nil"
    /\ visited[2].err = "nil"
    /\ todo = {}

\* C22: in the backfill a group whose members could not be listed gets no
\* Handle invocation, the other groups are still listed, each once, and
\* handled member by member; a Handle that returned an error is followed by
\* the Handle of the next member of the same group.
C22_BackfillFailuresIsolated ==
    /\ pc \in { "backfill", "backfillHandle" } =>
         /\ Len(visited) = calls["DescribeAutoScalingGroups"]
         /\ Cardinality(VisitedTaggers) = Len(visited)
         /\ VisitedTaggers = DOMAIN asgTaggers \ todo
         /\ result = << "none" >>
         /\ visited # <<>> =>
              /\ visited[Len(visited)].tagger = cur
              /\ visited[Len(visited)].err # "nil" =>
                   /\ pc = "backfill"
                   /\ handled = <<>>
                   /\ lastHandle = NoHandle
              /\ visited[Len(visited)].err = "nil" =>
                   /\ Len(handled) = (IF pc = "backfill" THEN Len(instances) ELSE ii - 1)
                   /\ \A j \in 1..Len(handled) :
                        /\ handled[j].tagger = cur
                        /\ handled[j].instance = instances[j]
    /\ (config.Backfill /\ pc \in PollingPcs) =>
         calls["DescribeAutoScalingGroups"] = Watched

\* C22 witness: the first group could not be listed, the second one was, and
\* after the Handle of its first member failed its second member was handled
C22_Witness ==
    /\ pc = "backfill"
    /\ Len(visited) = 2
    /\ visited[1].err # "nil"
    /\ visited[2].err = "nil"
    /\ Len(handled) = 2
    /\ handled[1].ret # "nil"
    /\ handled[2].instance = "i2"

\* the tagger map NewDaemon builds from the tagConfig and the group names it
\* listed: one tagger per listed name that matches a configured pattern
Snapshot ==
    [ n \in { x \in Range(asgNameList) :
                \E i \in 1..Len(config.TaggingConfigs) :
                  GlobMatches(config.TaggingConfigs[i].ASGName, x) } |->
        NewAutoscalingTagger(n, AddrOfConf) ]

\* C23: from the moment NewDaemon has returned the tagger map is the one
\* built from the group names listed at startup and Start leaves it as it
\* is; a message for a group that was not in that listing is dropped without
\* a Handle and without a call to EC2, even when a configured pattern
\* matches the name of the group.
C23_WatchedSetIsSnapshot ==
    /\ pc \in StartupPcs \cup PollingPcs \cup { "returned" } =>
         asgTaggers = Snapshot
    /\ (pc = "endOfBatch" /\ msg.err = "nil"
           /\ msg.GroupName \notin Range(asgNameList)) =>
         /\ handled = <<>>
         /\ lastHandle = NoHandle

\* C23 witness: a launch event of a group whose name matches a configured
\* pattern, and which was not listed at startup, has gone through the loop
C23_Witness ==
    /\ pc = "endOfBatch"
    /\ msg.err = "nil"
    /\ msg.Event = LaunchEvent
    /\ msg.GroupName \notin Range(asgNameList)
    /\ \E i \in 1..Len(config.TaggingConfigs) :
          GlobMatches(config.TaggingConfigs[i].ASGName, msg.GroupName)
    /\ acks = 1
    /\ handled = <<>>

\* C25: whatever the acknowledge of a message returned, the iteration goes
\* on with that message: while it is decoded and routed the message is the
\* one that was acknowledged once, and at the end of the iteration its
\* envelope has been decoded, the payload of a decoded envelope has been
\* decoded, and a launch event of a watched group has been handed to the
\* tagger of its group once.
C25_FailedAckStillProcesses ==
    /\ pc \in DecodingPcs \cup { "route" } =>
         /\ messages # <<>>
         /\ acks = 1
    /\ (pc = "endOfBatch" /\ acks = 1) =>
         /\ env.err # "none"
         /\ env.err = "nil" => msg.err # "none"
         /\ (msg.err = "nil" /\ Routed(asgTaggers, msg)) =>
              /\ Len(handled) = 1
              /\ handled[1].tagger = msg.GroupName
              /\ handled[1].instance = msg.EC2InstanceID
              /\ lastHandle.src = handled[1].src

\* C25 witness: a message was handled and is still on the queue although
\* the context is not cancelled: its acknowledge failed with an error of
\* the queue service
C25_Witness ==
    /\ pc = "endOfBatch"
    /\ ~ctxDone
    /\ acks = 1
    /\ Len(handled) = 1
    /\ \E m \in sqs : m.id = handled[1].src
    /\ msg.err = "nil"
    /\ msg.Event = LaunchEvent

\* the configuration entries whose pattern matches the group name g
MatchingEntries(g) == { i \in 1..Len(Configs) : Glob(Configs[i].ASGName, g) }

LastOf(S) == CHOOSE i \in S : \A j \in S : j <= i

\* C24: when NewDaemon has returned, a group name matched by several
\* configured patterns has one tagger, filed under that name, and its static
\* tags and key prefixes are those of the last matching entry of the
\* tagConfig.
C24_LastMatchingConfigWins ==
    pc = "Start" =>
        \A g \in Range(asgNameList) :
            Cardinality(MatchingEntries(g)) >= 2 =>
                /\ g \in DOMAIN asgTaggers
                /\ asgTaggers[g].asgName = g
                /\ Deref(asgTaggers[g].tags).Tags = Configs[LastOf(MatchingEntries(g))].Tags
                /\ Deref(asgTaggers[g].tags).KeyPrefix
                     = Configs[LastOf(MatchingEntries(g))].KeyPrefix

\* the steps Start takes once the context is cancelled: in the backfill the
\* next group is listed and the next member handled as if nothing had
\* happened, the backfill is left only when no group remains, and the top
\* of the loop then returns nil without a receive
CancelledStep ==
    /\ (ctxDone /\ pc = "backfill" /\ todo # {}) =>
         /\ calls'["DescribeAutoScalingGroups"] = calls["DescribeAutoScalingGroups"] + 1
         /\ cur' \in todo
         /\ todo' = todo \ { cur' }
         /\ pc' \in { "backfill", "backfillHandle" }
    /\ (ctxDone /\ pc = "backfill" /\ todo = {}) => pc' = "poll"
    /\ (ctxDone /\ pc = "backfillHandle" /\ ii <= Len(instances)) =>
         /\ Len(handled') = Len(handled) + 1
         /\ handled'[Len(handled')].tagger = cur
         /\ handled'[Len(handled')].instance = instances[ii]
         /\ ii' = ii + 1
         /\ pc' = "backfillHandle"
    /\ (ctxDone /\ pc = "backfillHandle" /\ ii > Len(instances)) => pc' = "backfill"
    /\ (ctxDone /\ pc \in { "backfill", "backfillHandle" }) =>
         /\ ctxDone'
         /\ result' = << "none" >>
         /\ calls'["ReceiveMessage"] = 0
    /\ (ctxDone /\ pc = "poll" /\ NoRequest("ReceiveMessage")) =>
         /\ NoRequest("ReceiveMessage")'
         /\ pc' \in { "poll", "returned" }
         /\ pc' = "returned" => result' = << "nil" >>

\* C26: a cancelled context changes nothing in the backfill: every group
\* that remains is listed, every member that remains is handled, and when
\* no group remains Start comes to the top of its loop and returns nil
\* without having issued a receive.
C26_BackfillIgnoresCancel == [][CancelledStep]_vars

\* C26 witness: the context was cancelled before the first listing of the
\* backfill, and two groups have been listed and the two members of the
\* second one handled since
C26_Witness ==
    /\ pc = "backfill"
    /\ todo = {}
    /\ Len(visited) = 2
    /\ visited[1].done
    /\ visited[2].err = "nil"
    /\ Len(handled) = 2
====
